---- MODULE Spec2Model ----
(***************************************************************************)
(* Upbit coin dashboard worker (src/src/index.ts): the RSI calculator, the *)
(* metrics aggregator with its fan-out of candle fetches, the dashboard    *)
(* sort and the request handler.                                           *)
(*                                                                         *)
(* JavaScript numbers are modelled exactly: a number is a record [n, d],   *)
(* the reduced fraction n/d with d > 0, and the three non-finite values    *)
(* are d = 0 with n = 1 (Infinity), n = -1 (-Infinity) and n = 0 (NaN).    *)
(* Rounding error of binary64, overflow to Infinity and the sign of zero   *)
(* are not modelled. Trade prices and volumes are integers.                *)
(***************************************************************************)
EXTENDS Integers, Sequences, FiniteSets

\* ------------------------------------------------------------------ bounds
MaxPrice == 2     \* trade prices of the RSI harness range over 0..MaxPrice
MaxLen == 4       \* longest candle series of the RSI harness
MaxPeriod == 3    \* RSI periods of the harness range over 1..MaxPeriod
MaxMarkets == 4   \* longest upstream market list
TopN == 2         \* the candidate cap, slice(0, 30) of the source, scaled down
MaxRows == 3      \* most records of a collection handed to generateDashboard alone

DefaultPeriod == 14   \* calculateRSI's default period

\* ------------------------------------------------------- JavaScript numbers
Abs(x) == IF x < 0 THEN -x ELSE x
Sign(x) == IF x < 0 THEN -1 ELSE IF x > 0 THEN 1 ELSE 0

RECURSIVE GCD(_, _)
GCD(a, b) == IF b = 0 THEN a ELSE GCD(b, a % b)

\* the reduced fraction n/d, d # 0
Norm(n, d) ==
    LET g == GCD(Abs(n), Abs(d))
    IN  [n |-> (Sign(d) * n) \div g, d |-> Abs(d) \div g]

NaN == [n |-> 0, d |-> 0]
Infinity(s) == [n |-> s, d |-> 0]
FromInt(k) == [n |-> k, d |-> 1]
IsNaN(x) == x.d = 0 /\ x.n = 0
IsFinite(x) == x.d > 0
IsZero(x) == x.d > 0 /\ x.n = 0

JsNeg(a) == [n |-> -a.n, d |-> a.d]

JsAdd(a, b) ==
    IF IsNaN(a) \/ IsNaN(b) THEN NaN
    ELSE IF IsFinite(a) /\ IsFinite(b) THEN Norm(a.n * b.d + b.n * a.d, a.d * b.d)
    ELSE IF IsFinite(a) THEN b
    ELSE IF IsFinite(b) THEN a
    ELSE IF a.n = b.n THEN a ELSE NaN

JsSub(a, b) == JsAdd(a, JsNeg(b))

JsMul(a, b) ==
    IF IsNaN(a) \/ IsNaN(b) THEN NaN
    ELSE IF IsFinite(a) /\ IsFinite(b) THEN Norm(a.n * b.n, a.d * b.d)
    ELSE IF IsZero(a) \/ IsZero(b) THEN NaN
    ELSE Infinity(Sign(a.n) * Sign(b.n))

JsDiv(a, b) ==
    IF IsNaN(a) \/ IsNaN(b) THEN NaN
    ELSE IF IsFinite(b) /\ ~IsZero(b)
         THEN IF IsFinite(a) THEN Norm(a.n * b.d, a.d * b.n)
              ELSE Infinity(Sign(a.n) * Sign(b.n))
    ELSE IF IsZero(b)
         THEN IF IsZero(a) THEN NaN ELSE Infinity(Sign(a.n))
    ELSE IF IsFinite(a) THEN FromInt(0) ELSE NaN

\* a < b and a <= b of JavaScript: false as soon as one side is NaN
JsLt(a, b) ==
    /\ ~IsNaN(a) /\ ~IsNaN(b)
    /\ \/ IsFinite(a) /\ IsFinite(b) /\ a.n * b.d < b.n * a.d
       \/ ~IsFinite(a) /\ a.n < 0 /\ ~(~IsFinite(b) /\ b.n < 0)
       \/ ~IsFinite(b) /\ b.n > 0 /\ ~(~IsFinite(a) /\ a.n > 0)

JsLe(a, b) == ~IsNaN(a) /\ ~IsNaN(b) /\ ~JsLt(b, a)

\* Math.round: the nearest integer, halves upwards
MathRound(x) ==
    IF IsFinite(x) THEN FromInt((2 * x.n + x.d) \div (2 * x.d)) ELSE x

\* ------------------------------------------------------------ calculateRSI
Reverse(s) == [i \in 1..Len(s) |-> s[Len(s) + 1 - i]]

\* the loop of lines 46-53, from index i (0-based, as in the source) to period
\* (mutant) the loop with the loss added as it comes, without Math.abs
RECURSIVE AccumulateSigned(_, _, _, _, _)
AccumulateSigned(prices, i, period, gains, losses) ==
    IF i > period THEN [gains |-> gains, losses |-> losses]
    ELSE LET change == prices[i + 1] - prices[i]
         IN  IF change > 0
             THEN AccumulateSigned(prices, i + 1, period, gains + change, losses)
             ELSE AccumulateSigned(prices, i + 1, period, gains, losses + change)

RECURSIVE AccumulateChanges(_, _, _, _, _)
AccumulateChanges(prices, i, period, gains, losses) ==
    IF i > period THEN [gains |-> gains, losses |-> losses]
    ELSE LET change == prices[i + 1] - prices[i]
         IN  IF change > 0
             THEN AccumulateChanges(prices, i + 1, period, gains + change, losses)
             ELSE AccumulateChanges(prices, i + 1, period, gains, losses + Abs(change))

\* lines 55-63, from the sums of the loop
RsiOf(acc, period) ==
    LET avgGain == JsDiv(FromInt(acc.gains), FromInt(period))
        avgLoss == JsDiv(FromInt(acc.losses), FromInt(period))
    IN  IF IsZero(avgLoss) THEN FromInt(100)
        ELSE LET rs == JsDiv(avgGain, avgLoss)
                 rsi == JsSub(FromInt(100), JsDiv(FromInt(100), JsAdd(FromInt(1), rs)))
             IN  JsDiv(MathRound(JsMul(rsi, FromInt(100))), FromInt(100))

TradePrices(candles) == [i \in 1..Len(candles) |-> candles[i].trade_price]

\* (mutant) the length test one too strict
calculateRSI_OffByOne(candles, period) ==
    IF Len(candles) <= period + 1 THEN FromInt(50)
    ELSE RsiOf(AccumulateChanges(Reverse(TradePrices(candles)), 1, period, 0, 0), period)

\* (mutant) the prices left newest first
calculateRSI_NewestFirst(candles, period) ==
    IF Len(candles) < period + 1 THEN FromInt(50)
    ELSE RsiOf(AccumulateChanges(TradePrices(candles), 1, period, 0, 0), period)

calculateRSI(candles, period) ==
    IF Len(candles) < period + 1 THEN FromInt(50)
    ELSE RsiOf(AccumulateChanges(Reverse(TradePrices(candles)), 1, period, 0, 0), period)

\* --------------------------------------------------------- upstream data
Candle(p, v) == [trade_price |-> p, candle_acc_trade_volume |-> v]

\* a candle series, newest first, with the given trade prices; the newest
\* candle carries the volume vol
Series(prices, vol) ==
    [i \in 1..Len(prices) |-> Candle(prices[i], IF i = 1 THEN vol ELSE 1)]

\* identifiers are sequences of characters, so that startsWith is computed
KrwBtc == <<"K", "R", "W", "-", "B", "T", "C">>
KrwEth == <<"K", "R", "W", "-", "E", "T", "H">>
KrwXrp == <<"K", "R", "W", "-", "X", "R", "P">>
BtcKrw == <<"B", "T", "C", "-", "K", "R", "W">>

MarketInfo(id, name) == [market |-> id, korean_name |-> name]

MarketUniverse ==
    { MarketInfo(KrwBtc, "bitcoin"), MarketInfo(KrwEth, "ethereum"),
      MarketInfo(KrwXrp, "ripple"), MarketInfo(BtcKrw, "won") }

\* the sequences over S of length n without a repeated element
RECURSIVE DistinctSeqs(_, _)
DistinctSeqs(S, n) ==
    IF n = 0 THEN {<<>>}
    ELSE UNION { { Append(s, e) : e \in S \ {s[i] : i \in 1..Len(s)} }
                 : s \in DistinctSeqs(S, n - 1) }

\* what /v1/market/all may return: every market once, in any order
UpstreamLists == UNION { DistinctSeqs(MarketUniverse, n) : n \in 0..MaxMarkets }

\* what /v1/candles/days may return for one market
SampleSeries ==
    Series(<<105, 100, 98, 102, 99, 97, 101, 103, 96, 94, 100, 102, 98, 95, 93>>, 2)

CandleReplies ==
    { <<>>, Series(<<1>>, 1), Series(<<1, 0>>, 3), SampleSeries }

\* the ways one call of fetchUpbitAPI throws: fetch rejects, the status is
\* not ok, response.json() rejects
FetchFailures == {"network", "status", "decode"}

\* the status message stands for `Upbit API 오류: ${response.status}`
Thrown(kind) ==
    [isError |-> TRUE,
     message |-> CASE kind = "network" -> "fetch failed"
                   [] kind = "status" -> "Upbit API error: 429"
                   [] kind = "decode" -> "Unexpected token"]

\* what one call of fetchUpbitAPI came to: it threw, or returned the payload
Failed(kind) == [ok |-> FALSE, kind |-> kind, json |-> <<>>]
Arrived(json) == [ok |-> TRUE, kind |-> "ok", json |-> json]

\* ---------------------------------------------------------- getCoinMetrics
StartsWith(s, prefix) ==
    Len(s) >= Len(prefix) /\ SubSeq(s, 1, Len(prefix)) = prefix

IsKrw(m) == StartsWith(m.market, <<"K", "R", "W", "-">>)

\* markets.filter((m) => m.market.startsWith('KRW-'))
RECURSIVE FilterKrw(_)
FilterKrw(s) ==
    IF s = <<>> THEN <<>>
    ELSE IF IsKrw(Head(s)) THEN <<Head(s)>> \o FilterKrw(Tail(s))
    ELSE FilterKrw(Tail(s))

Slice(s, n) == SubSeq(s, 1, IF Len(s) < n THEN Len(s) ELSE n)

\* (mutant) the candidates without the cap
KrwMarkets_NoSlice(markets) == FilterKrw(markets)

\* line 85
KrwMarkets(markets) == Slice(FilterKrw(markets), TopN)

\* (mutant) the volume read from the second candle
CoinMetrics_WrongCandle(market, candles) ==
    LET currentPrice == candles[1].trade_price
        priceYesterday == candles[2].trade_price
        priceChange24h == currentPrice - priceYesterday
    IN  [market |-> market.market,
         koreanName |-> market.korean_name,
         currentPrice |-> currentPrice,
         volume24h |-> candles[2].candle_acc_trade_volume,
         rsi |-> calculateRSI(candles, DefaultPeriod),
         priceChange24h |-> priceChange24h,
         priceChangePercent |->
            JsMul(JsDiv(FromInt(priceChange24h), FromInt(priceYesterday)), FromInt(100))]

\* lines 95-112: the record built from a series of at least two candles
CoinMetrics(market, candles) ==
    LET currentPrice == candles[1].trade_price
        volume24h == candles[1].candle_acc_trade_volume
        priceYesterday == candles[2].trade_price
        priceChange24h == currentPrice - priceYesterday
        priceChangePercent ==
            JsMul(JsDiv(FromInt(priceChange24h), FromInt(priceYesterday)), FromInt(100))
    IN  [market |-> market.market,
         koreanName |-> market.korean_name,
         currentPrice |-> currentPrice,
         volume24h |-> volume24h,
         rsi |-> calculateRSI(candles, DefaultPeriod),
         priceChange24h |-> priceChange24h,
         priceChangePercent |-> priceChangePercent]

Pending == [state |-> "pending", value |-> <<>>]
Fulfilled(v) == [state |-> "fulfilled", value |-> v]
Rejected(error) == [state |-> "rejected", value |-> error]

\* (mutant) the branch without its try/catch
BranchOutcome_NoCatch(market, reply) ==
    IF ~reply.ok THEN Rejected(Thrown(reply.kind))
    ELSE IF Len(reply.json) < 2 THEN Fulfilled(<<>>)
    ELSE Fulfilled(<<CoinMetrics(market, reply.json)>>)

\* lines 88-117: what one branch's promise settles to given what its fetch
\* came to; it is fulfilled with <<>> for null and with <<r>> for the record r
BranchOutcome(market, reply) ==
    IF ~reply.ok THEN Fulfilled(<<>>)
    ELSE IF Len(reply.json) < 2 THEN Fulfilled(<<>>)
    ELSE Fulfilled(<<CoinMetrics(market, reply.json)>>)

\* line 119: Promise.all is rejected as soon as one promise is, and is
\* fulfilled once every promise is
AnyRejected(ps) == \E i \in 1..Len(ps) : ps[i].state = "rejected"

\* (mutant) Promise.race in the place of Promise.all
PromiseAllSettled_Race(ps) ==
    Len(ps) = 0 \/ \E i \in 1..Len(ps) : ps[i].state # "pending"

PromiseAllSettled(ps) ==
    \/ AnyRejected(ps)
    \/ \A i \in 1..Len(ps) : ps[i].state = "fulfilled"

FirstRejected(ps) ==
    ps[CHOOSE i \in 1..Len(ps) :
          ps[i].state = "rejected" /\ \A j \in 1..(i - 1) : ps[j].state # "rejected"]

RECURSIVE Flatten(_)
Flatten(s) == IF s = <<>> THEN <<>> ELSE Head(s) \o Flatten(Tail(s))

\* line 120: results.filter((r) => r !== null)
NonNull(ps) == Flatten([i \in 1..Len(ps) |-> ps[i].value])

\* ------------------------------------------------------- generateDashboard
SortKey(coin, sortBy) ==
    CASE sortBy = "volume" -> FromInt(coin.volume24h)
      [] sortBy = "rsi" -> coin.rsi
      [] sortBy = "change" -> coin.priceChangePercent

\* the comparator (a, b) => b.key - a.key as sort reads it: a result of NaN
\* counts as 0
Compare(a, b, sortBy) ==
    LET v == JsSub(SortKey(b, sortBy), SortKey(a, sortBy))
    IN  IF IsNaN(v) THEN FromInt(0) ELSE v

\* whether the comparator orders the elements of s consistently: being equal
\* and coming before are transitive
Consistent(s, sortBy) ==
    LET Before(a, b) == JsLt(Compare(a, b, sortBy), FromInt(0))
        Equal(a, b) == IsZero(Compare(a, b, sortBy))
        E == {s[i] : i \in 1..Len(s)}
    IN  \A a, b, c \in E :
           /\ (Equal(a, b) /\ Equal(b, c)) => Equal(a, c)
           /\ (Before(a, b) /\ Before(b, c)) => Before(a, c)
           /\ (Before(a, b) /\ Equal(b, c)) => Before(a, c)
           /\ (Equal(a, b) /\ Before(b, c)) => Before(a, c)

\* x put into the sorted sequence s after every element that does not have
\* to follow it
RECURSIVE Insert(_, _, _)
Insert(s, x, sortBy) ==
    IF s = <<>> THEN <<x>>
    ELSE IF JsLt(FromInt(0), Compare(Head(s), x, sortBy)) THEN <<x>> \o s
    ELSE <<Head(s)>> \o Insert(Tail(s), x, sortBy)

RECURSIVE StableSort(_, _)
StableSort(s, sortBy) ==
    IF s = <<>> THEN <<>>
    ELSE Insert(StableSort(SubSeq(s, 1, Len(s) - 1), sortBy), s[Len(s)], sortBy)

Permutations(s) ==
    LET n == Len(s)
    IN  { [i \in 1..n |-> s[f[i]]] :
            f \in { g \in [1..n -> 1..n] : \A i, j \in 1..n : i # j => g[i] # g[j] } }

\* Array.prototype.sort: the stable order of a consistent comparator, and an
\* order of the implementation's choosing otherwise
SortOutcomes(s, sortBy) ==
    IF Consistent(s, sortBy) THEN {StableSort(s, sortBy)} ELSE Permutations(s)

\* lines 126-133
SortedMetrics(metrics, sortBy) ==
    IF sortBy \in {"volume", "rsi", "change"} THEN SortOutcomes(metrics, sortBy)
    ELSE {metrics}

\* lines 135-150: one table row per coin, in the sorted order
Row(coin, index) ==
    [rank |-> index + 1,
     coin |-> coin,
     rsiColor |-> IF JsLt(FromInt(70), coin.rsi) THEN "#ef4444"
                  ELSE IF JsLt(coin.rsi, FromInt(30)) THEN "#3b82f6" ELSE "#6b7280",
     changeColor |-> IF JsLt(FromInt(0), coin.priceChangePercent)
                     THEN "#10b981" ELSE "#ef4444"]

Rows(sorted) == [i \in 1..Len(sorted) |-> Row(sorted[i], i - 1)]

\* ------------------------------------------------------------ the handler
\* JSON.stringify writes a number that is not finite as null
JsonNumber(x) == IF IsFinite(x) THEN <<x>> ELSE <<>>

JsonStringify(metrics) ==
    [i \in 1..Len(metrics) |->
        [metrics[i] EXCEPT !.rsi = JsonNumber(@),
                           !.priceChangePercent = JsonNumber(@)]]

\* lines 304-309
JsonResponse(metrics) ==
    [status |-> 200, contentType |-> "application/json", cors |-> TRUE,
     body |-> JsonStringify(metrics)]

\* lines 316-320
HtmlResponse(rows) ==
    [status |-> 200, contentType |-> "text/html; charset=utf-8", cors |-> FALSE,
     body |-> rows]

\* (mutant) the catch answering without a status
ErrorResponse_NoStatus(error) ==
    [status |-> 200, contentType |-> "text/plain; charset=utf-8", cors |-> FALSE,
     body |-> [prefix |-> "error: ",
               message |-> IF error.isError THEN error.message ELSE "unknown error"]]

\* lines 321-326; "error: " and "unknown error" stand for the Korean texts
ErrorResponse(error) ==
    [status |-> 500, contentType |-> "text/plain; charset=utf-8", cors |-> FALSE,
     body |-> [prefix |-> "error: ",
               message |-> IF error.isError THEN error.message ELSE "unknown error"]]

\* line 299: searchParams.get('sort') || 'volume'; <<>> is a missing parameter
SortBy(param) == IF param = <<>> \/ param = <<"">> THEN "volume" ELSE param[1]

Requests ==
    {[path |-> "/api/metrics", sort |-> <<>>]}
    \cup {[path |-> "/", sort |-> s] :
            s \in {<<>>, <<"change">>, <<"name">>}}

VARIABLES
    request,      \* the inbound request: its path and its sort parameter
    pc,           \* where the handler stands
    sortBy,       \* the handler's sortBy
    marketsReply, \* <<>>, or <<what the fetch of the market list came to>>
    krwMarkets,   \* getCoinMetrics' candidates
    calls,        \* per candidate, the candle fetches issued for it
    replies,      \* per candidate, <<>> in flight, else <<what its fetch came to>>
    settled,      \* the candidates' indices in the order their fetches settled
    promises,     \* per candidate, the promise of its branch (metricsPromises)
    logged,       \* the markets console.error has reported
    metrics,      \* <<>>, or <<what getCoinMetrics returned>>
    response,     \* <<>>, or <<the response>>
    harness       \* a call of a pure function on its own, <<>> in a request

vars == <<request, pc, sortBy, marketsReply, krwMarkets, calls, replies, settled,
          promises, logged, metrics, response, harness>>

requestVars == <<request, pc, sortBy, marketsReply, krwMarkets, calls, replies,
                 settled, promises, logged, metrics, response>>

Idle ==
    /\ sortBy = ""
    /\ marketsReply = <<>>
    /\ krwMarkets = <<>>
    /\ calls = <<>>
    /\ replies = <<>>
    /\ settled = <<>>
    /\ promises = <<>>
    /\ logged = {}
    /\ metrics = <<>>
    /\ response = <<>>

InitRequest ==
    /\ request \in Requests
    /\ pc = "start"
    /\ harness = <<>>
    /\ Idle

\* lines 297-303, 313: up to the await of the market list
fetch ==
    /\ pc = "start"
    /\ sortBy' = SortBy(request.sort)
    /\ pc' = "markets"
    /\ UNCHANGED <<request, marketsReply, krwMarkets, calls, replies, settled,
                   promises, logged, metrics, response, harness>>

\* line 84 throws: getCoinMetrics rejects, the handler's catch answers
marketListFails ==
    /\ pc = "markets"
    /\ \E kind \in FetchFailures :
         /\ marketsReply' = <<Failed(kind)>>
         /\ response' = <<ErrorResponse(Thrown(kind))>>
    /\ pc' = "done"
    /\ UNCHANGED <<request, sortBy, krwMarkets, calls, replies, settled, promises,
                   logged, metrics, harness>>

\* lines 84-88, 91: the list arrives, the candidates are cut and every
\* branch runs to its await, which issues its fetch
marketListArrives ==
    /\ pc = "markets"
    /\ \E list \in UpstreamLists :
         /\ marketsReply' = <<Arrived(list)>>
         /\ krwMarkets' = KrwMarkets(list)
    /\ calls' = [i \in 1..Len(krwMarkets') |-> 1]
    /\ replies' = [i \in 1..Len(krwMarkets') |-> <<>>]
    /\ promises' = [i \in 1..Len(krwMarkets') |-> Pending]
    /\ pc' = "candles"
    /\ UNCHANGED <<request, sortBy, settled, logged, metrics, response, harness>>

\* lines 91-116: one branch's fetch settles and the branch runs to its end
candleFetchSettles(i) ==
    /\ pc = "candles"
    /\ promises[i].state = "pending"
    /\ \E reply \in {Failed(k) : k \in FetchFailures} \cup {Arrived(c) : c \in CandleReplies} :
         /\ replies' = [replies EXCEPT ![i] = <<reply>>]
         /\ promises' = [promises EXCEPT ![i] = BranchOutcome(krwMarkets[i], reply)]
         /\ logged' = IF reply.ok THEN logged ELSE logged \cup {krwMarkets[i].market}
    /\ settled' = Append(settled, i)
    /\ UNCHANGED <<request, pc, sortBy, marketsReply, krwMarkets, calls, metrics,
                   response, harness>>

\* lines 119-120, and the handler's catch should Promise.all reject
getCoinMetrics ==
    /\ pc = "candles"
    /\ PromiseAllSettled(promises)
    /\ IF AnyRejected(promises)
       THEN /\ response' = <<ErrorResponse(FirstRejected(promises).value)>>
            /\ pc' = "done"
            /\ UNCHANGED metrics
       ELSE /\ metrics' = <<NonNull(promises)>>
            /\ pc' = "respond"
            /\ UNCHANGED response
    /\ UNCHANGED <<request, sortBy, marketsReply, krwMarkets, calls, replies, settled,
                   promises, logged, harness>>

\* lines 302-310
respondJson ==
    /\ pc = "respond"
    /\ request.path = "/api/metrics"
    /\ response' = <<JsonResponse(metrics[1])>>
    /\ pc' = "done"
    /\ UNCHANGED <<request, sortBy, marketsReply, krwMarkets, calls, replies, settled,
                   promises, logged, metrics, harness>>

\* lines 313-320
respondHtml ==
    /\ pc = "respond"
    /\ request.path # "/api/metrics"
    /\ \E sorted \in SortedMetrics(metrics[1], sortBy) :
         response' = <<HtmlResponse(Rows(sorted))>>
    /\ pc' = "done"
    /\ UNCHANGED <<request, sortBy, marketsReply, krwMarkets, calls, replies, settled,
                   promises, logged, metrics, harness>>

\* ------------------------------------------------- calculateRSI on its own
RECURSIVE SeqsUpTo(_, _)
SeqsUpTo(S, n) ==
    IF n = 0 THEN {<<>>}
    ELSE LET shorter == SeqsUpTo(S, n - 1)
         IN  shorter \cup { Append(s, e) : s \in { t \in shorter : Len(t) = n - 1 }, e \in S }

\* a series newest first, a period, and one more candle to put at either end
InitRSI ==
    /\ \E prices \in SeqsUpTo(0..MaxPrice, MaxLen), period \in 1..MaxPeriod, p \in 0..MaxPrice :
         harness = <<[candles |-> Series(prices, 1), period |-> period,
                      extra |-> Candle(p, 1),
                      rsi |-> <<>>, rsiOlder |-> <<>>, rsiNewer |-> <<>>]>>
    /\ pc = "rsi"
    /\ request = [path |-> "", sort |-> <<>>]
    /\ Idle

\* calculateRSI(candles, period)
rsiOfSeries ==
    /\ pc = "rsi"
    /\ harness[1].rsi = <<>>
    /\ harness' = <<[harness[1] EXCEPT
                       !.rsi = <<calculateRSI(harness[1].candles, harness[1].period)>>]>>
    /\ UNCHANGED requestVars

\* calculateRSI of the series with one older candle after its last
rsiWithOlder ==
    /\ pc = "rsi"
    /\ harness[1].rsiOlder = <<>>
    /\ harness' = <<[harness[1] EXCEPT
                       !.rsiOlder = <<calculateRSI(Append(harness[1].candles, harness[1].extra),
                                                   harness[1].period)>>]>>
    /\ UNCHANGED requestVars

\* calculateRSI of the series with one newer candle before its first
rsiWithNewer ==
    /\ pc = "rsi"
    /\ harness[1].rsiNewer = <<>>
    /\ harness' = <<[harness[1] EXCEPT
                       !.rsiNewer = <<calculateRSI(<<harness[1].extra>> \o harness[1].candles,
                                                   harness[1].period)>>]>>
    /\ UNCHANGED requestVars

\* ---------------------------------------------- generateDashboard on its own
\* the series a record can be built from
DashboardSeries ==
    { Series(<<2, 1>>, 1), Series(<<1, 2>>, 2), Series(<<1, 0>>, 3),
      Series(<<0, 0>>, 1), SampleSeries }

MarketOrder ==
    << MarketInfo(KrwBtc, "bitcoin"), MarketInfo(KrwEth, "ethereum"),
       MarketInfo(KrwXrp, "ripple"), MarketInfo(BtcKrw, "won") >>

\* the collections of up to MaxRows records the aggregator can build
DashboardInputs ==
    { [i \in 1..Len(ss) |-> CoinMetrics(MarketOrder[i], ss[i])] :
        ss \in SeqsUpTo(DashboardSeries, MaxRows) }

InitDashboard ==
    /\ \E m \in DashboardInputs, key \in {"volume", "rsi", "change", "name"} :
         harness = <<[metrics |-> m, sortBy |-> key, rows |-> <<>>]>>
    /\ pc = "dashboard"
    /\ request = [path |-> "", sort |-> <<>>]
    /\ Idle

\* generateDashboard(metrics, sortBy)
generateDashboard ==
    /\ pc = "dashboard"
    /\ harness[1].rows = <<>>
    /\ \E sorted \in SortedMetrics(harness[1].metrics, harness[1].sortBy) :
         harness' = <<[harness[1] EXCEPT !.rows = <<Rows(sorted)>>]>>
    /\ UNCHANGED requestVars

Init == InitRequest \/ InitRSI \/ InitDashboard

Next ==
    \/ fetch
    \/ marketListFails
    \/ marketListArrives
    \/ \E i \in 1..Len(promises) : candleFetchSettles(i)
    \/ getCoinMetrics
    \/ respondJson
    \/ respondHtml
    \/ rsiOfSeries
    \/ rsiWithOlder
    \/ rsiWithNewer
    \/ generateDashboard

Spec == Init /\ [][Next]_vars

\* ------------------------------------------------------------- properties
Returned == metrics # <<>>
ListArrived == marketsReply # <<>> /\ marketsReply[1].ok
ListFailed == marketsReply # <<>> /\ ~marketsReply[1].ok
Candidates == 1..Len(krwMarkets)

\* the positions of the result that hold a record of the market id
RecordsOf(id) == { j \in 1..Len(metrics[1]) : metrics[1][j].market = id }

FetchFailed(i) == replies[i] # <<>> /\ ~replies[i][1].ok
FetchGave(i, n) == replies[i] # <<>> /\ replies[i][1].ok /\ Len(replies[i][1].json) = n
FetchGaveTwo(i) == replies[i] # <<>> /\ replies[i][1].ok /\ Len(replies[i][1].json) >= 2

\* C1: a candidate whose candle fetch failed has no record in what
\* getCoinMetrics returns, every candidate whose fetch gave two candles or
\* more has one, and once the market list has arrived no failure of a candle
\* fetch keeps getCoinMetrics from returning: the handler stands at its
\* response only with the result in hand.
C1_FailedFetchIsolated ==
    /\ Returned =>
         \A i \in Candidates :
            /\ FetchFailed(i) => RecordsOf(krwMarkets[i].market) = {}
            /\ FetchGaveTwo(i) => RecordsOf(krwMarkets[i].market) # {}
    /\ (ListArrived /\ pc \in {"respond", "done"}) => Returned
    /\ (ListArrived /\ response # <<>>) => response[1].status = 200

\* a first candidate whose fetch failed after the second one's gave candles
C1_Witness ==
    /\ Returned /\ Len(krwMarkets) = 2 /\ settled = <<2, 1>>
    /\ FetchFailed(1) /\ replies[1][1].kind = "status"
    /\ FetchGaveTwo(2) /\ RecordsOf(krwMarkets[2].market) # {}

\* C2: the result of getCoinMetrics holds a record of a candidate exactly
\* when its fetch gave two candles or more, and then exactly one, whose
\* currentPrice and volume24h are the newest candle's and whose
\* priceChange24h is the newest trade price less the second newest; the
\* result holds nothing else.
C2_RecordIffTwoCandles ==
    Returned =>
      /\ \A i \in Candidates :
           LET recs == RecordsOf(krwMarkets[i].market)
           IN  IF FetchGaveTwo(i)
               THEN /\ Cardinality(recs) = 1
                    /\ \A j \in recs :
                         LET r == metrics[1][j]
                             c == replies[i][1].json
                         IN  /\ r.currentPrice = c[1].trade_price
                             /\ r.volume24h = c[1].candle_acc_trade_volume
                             /\ r.priceChange24h = c[1].trade_price - c[2].trade_price
               ELSE recs = {}
      /\ Len(metrics[1]) = Cardinality({ i \in Candidates : FetchGaveTwo(i) })

\* one candle for the first candidate, fifteen for the second
C2_Witness ==
    /\ Returned /\ Len(krwMarkets) = 2
    /\ FetchGave(1, 1) /\ FetchGave(2, 15)
    /\ Len(metrics[1]) = 1 /\ metrics[1][1].priceChange24h = 5

\* C3: when the fetch of the market list fails the request ends with a
\* status-500 text/plain response that carries the error's message, on either
\* path, and nothing was aggregated; a response of status 200 is given only
\* with the result of getCoinMetrics in hand.
C3_ListFailureIs500 ==
    /\ ListFailed =>
         /\ pc = "done" /\ metrics = <<>> /\ response # <<>>
         /\ response[1].status = 500
         /\ response[1].contentType = "text/plain; charset=utf-8"
         /\ response[1].body.message = Thrown(marketsReply[1].kind).message
    /\ (response # <<>> /\ response[1].status = 200) => (ListArrived /\ Returned)

C3_Witness ==
    /\ ListFailed /\ marketsReply[1].kind = "network"
    /\ request.path = "/api/metrics"
    /\ response # <<>> /\ response[1].status = 500

\* the field a sort key orders by
Field(coin, key) ==
    CASE key = "volume" -> FromInt(coin.volume24h)
      [] key = "rsi" -> coin.rsi
      [] key = "change" -> coin.priceChangePercent

\* no row stands before a row with a larger field
NonIncreasing(coins, key) ==
    \A i, j \in 1..Len(coins) :
       i < j => ~JsLt(Field(coins[i], key), Field(coins[j], key))

IsPermutation(a, b) ==
    /\ Len(a) = Len(b)
    /\ \A x \in {a[i] : i \in 1..Len(a)} \cup {b[i] : i \in 1..Len(b)} :
         Cardinality({i \in 1..Len(a) : a[i] = x}) = Cardinality({i \in 1..Len(b) : b[i] = x})

RowsInOrder(rows, input, key) ==
    LET coins == [i \in 1..Len(rows) |-> rows[i].coin]
    IN  IF key \in {"volume", "rsi", "change"}
        THEN NonIncreasing(coins, key) /\ IsPermutation(coins, input)
        ELSE coins = input

\* C4: the rows generateDashboard renders are a permutation of the records,
\* non-increasing on the field of the sort key "volume", "rsi" or "change" (no
\* row before a row with a larger value), and are the records in their order
\* for any other key.
C4_SortedNonIncreasing ==
    /\ (pc = "dashboard" /\ harness[1].rows # <<>>) =>
         RowsInOrder(harness[1].rows[1], harness[1].metrics, harness[1].sortBy)
    /\ (pc = "done" /\ Returned /\ request.path # "/api/metrics") =>
         RowsInOrder(response[1].body, metrics[1], sortBy)

\* the same of the collections whose sort field is nowhere NaN
C4_SortedWithoutNaN ==
    (pc = "dashboard" /\ harness[1].rows # <<>>
       /\ harness[1].sortBy \in {"volume", "rsi", "change"}
       /\ \A k \in 1..Len(harness[1].metrics) :
             ~IsNaN(Field(harness[1].metrics[k], harness[1].sortBy))) =>
         RowsInOrder(harness[1].rows[1], harness[1].metrics, harness[1].sortBy)

InRange(x) == JsLe(FromInt(0), x) /\ JsLe(x, FromInt(100))

ExaminedChange(candles, i) ==
    candles[Len(candles) - i].trade_price - candles[Len(candles) + 1 - i].trade_price

\* C6: calculateRSI returns 50 for a series of fewer than period+1 candles,
\* and 100 for a longer one all of whose period examined changes are
\* non-negative.
C6_NeutralAndMax ==
    (pc = "rsi" /\ harness[1].rsi # <<>>) =>
       LET c == harness[1].candles
           period == harness[1].period
       IN  /\ Len(c) < period + 1 => harness[1].rsi[1] = FromInt(50)
           /\ (Len(c) >= period + 1 /\ \A i \in 1..period : ExaminedChange(c, i) >= 0)
                 => harness[1].rsi[1] = FromInt(100)

\* exactly period+1 candles, rising
C6_Witness ==
    /\ pc = "rsi" /\ harness[1].rsi = <<FromInt(100)>>
    /\ Len(harness[1].candles) = harness[1].period + 1
    /\ \E i \in 1..harness[1].period : ExaminedChange(harness[1].candles, i) > 0

\* C7: no record getCoinMetrics returns carries a percent change that comes
\* from a division by a previous price of zero: the value is finite.
C7_DivideByZeroGuarded ==
    Returned =>
      \A i \in Candidates :
         (FetchGaveTwo(i) /\ replies[i][1].json[2].trade_price = 0) =>
            \A j \in RecordsOf(krwMarkets[i].market) :
               IsFinite(metrics[1][j].priceChangePercent)

\* C8 as stated: with period+1 candles or more, one more older candle after
\* the last leaves the value of calculateRSI as it was.
C8_OlderCandlesIgnored ==
    (pc = "rsi" /\ harness[1].rsi # <<>> /\ harness[1].rsiOlder # <<>>
       /\ Len(harness[1].candles) >= harness[1].period + 1) =>
         harness[1].rsiOlder = harness[1].rsi

\* C8 as amended: with period+1 candles or more, one more newer candle before
\* the first leaves the value of calculateRSI as it was: the value depends on
\* the oldest period+1 candles alone.
C8_NewerCandlesIgnored ==
    (pc = "rsi" /\ harness[1].rsi # <<>> /\ harness[1].rsiNewer # <<>>
       /\ Len(harness[1].candles) >= harness[1].period + 1) =>
         harness[1].rsiNewer = harness[1].rsi

\* a newer candle at another price than the newest, and a value that is
\* neither 50 nor 100
C8_Witness ==
    /\ pc = "rsi" /\ harness[1].rsi # <<>> /\ harness[1].rsiNewer # <<>>
    /\ Len(harness[1].candles) >= harness[1].period + 1
    /\ harness[1].extra.trade_price # harness[1].candles[1].trade_price
    /\ harness[1].rsi[1] \notin {FromInt(50), FromInt(100)}

\* C9: every candidate's fetch is issued, once, before any of them settles
\* and none is issued again; getCoinMetrics has returned, and the handler has
\* answered a request whose market list arrived, only with every fetch
\* settled and every branch's promise fulfilled, a failed branch's included.
C9_AllSettledBeforeReturn ==
    /\ Len(calls) = Len(krwMarkets)
    /\ \A i \in Candidates : calls[i] = 1
    /\ Len(settled) = Cardinality({ i \in Candidates : replies[i] # <<>> })
    /\ \A a, b \in 1..Len(settled) : a # b => settled[a] # settled[b]
    /\ (Returned \/ (ListArrived /\ response # <<>>)) =>
         \A i \in Candidates : replies[i] # <<>> /\ promises[i].state = "fulfilled"

\* the first fetch to settle failed, its sibling settled after it, and the
\* response came last
C9_Witness ==
    /\ pc = "done" /\ ListArrived /\ response # <<>>
    /\ Len(krwMarkets) = 2 /\ settled = <<2, 1>>
    /\ FetchFailed(2) /\ FetchGaveTwo(1)

UpstreamIds == [p \in 1..Len(marketsReply[1].json) |-> marketsReply[1].json[p].market]
ResultIds == [j \in 1..Len(metrics[1]) |-> metrics[1][j].market]
HasKrwPrefix(id) == Len(id) >= 4 /\ <<id[1], id[2], id[3], id[4]>> = <<"K", "R", "W", "-">>
PositionOf(id) == CHOOSE p \in 1..Len(UpstreamIds) : UpstreamIds[p] = id

\* C10: the markets of the result of getCoinMetrics are at most TopN, each
\* is one of the first TopN markets of the upstream list that start with
\* "KRW-", and they stand in the order of the upstream list, none twice,
\* whatever the order in which the fetches settled.
C10_ResultIsOrderedSubsequence ==
    Returned =>
      /\ Len(ResultIds) <= TopN
      /\ \A j \in 1..Len(ResultIds) :
           /\ \E p \in 1..Len(UpstreamIds) : UpstreamIds[p] = ResultIds[j]
           /\ HasKrwPrefix(ResultIds[j])
           /\ Cardinality({ q \in 1..(PositionOf(ResultIds[j]) - 1) :
                              HasKrwPrefix(UpstreamIds[q]) }) < TopN
      /\ \A j, k \in 1..Len(ResultIds) :
           j < k => PositionOf(ResultIds[j]) < PositionOf(ResultIds[k])

\* more KRW markets upstream than the cap, another market before them, a
\* full result, and the second candidate's fetch settled first
C10_Witness ==
    /\ Returned /\ Len(ResultIds) = TopN
    /\ ~HasKrwPrefix(UpstreamIds[1])
    /\ Cardinality({ q \in 1..Len(UpstreamIds) : HasKrwPrefix(UpstreamIds[q]) }) > TopN
    /\ Len(settled) >= 2 /\ settled[1] = 2
====
